---- MODULE Spec2Model ----
(***************************************************************************)
(* Model of src/vessy.py: the "Diagnose & Fix" handler of the Visual       *)
(* Troubleshoot AI page.  One run of the handler is                        *)
(*   click -> optional OCR -> diagnose (guard, prompt, external call,      *)
(*   json.loads + setdefault, fallback) -> rendering.                      *)
(* Text is a sequence of one-character strings; the raw answer of the      *)
(* external service is a sequence of JSON tokens that Loads parses.        *)
(***************************************************************************)
EXTENDS Integers, Sequences, FiniteSets, TLC

\* ---------------------------------------------------------------- bounds
MaxLen == 2

\* ------------------------------------------------------------------ text
Chars == {" ", "a"}
Whitespace == {" "}

Texts == UNION {[1..n -> Chars] : n \in 0..MaxLen}

SetMin(S) == CHOOSE x \in S : \A y \in S : x <= y
SetMax(S) == CHOOSE x \in S : \A y \in S : y <= x

\* str.strip(): drop leading and trailing whitespace
Strip(s) ==
  LET keep == {i \in 1..Len(s) : s[i] \notin Whitespace}
  IN IF keep = {} THEN <<>> ELSE SubSeq(s, SetMin(keep), SetMax(keep))

\* Optional text: None or a str
None == [isNone |-> TRUE, text |-> <<>>]
Some(t) == [isNone |-> FALSE, text |-> t]
\* truth value of an optional str ("if image_text")
TruthyText(o) == ~o.isNone /\ o.text # <<>>

\* ---------------------------------------------------------- Python values
PyStr(s) == [t |-> "str", v |-> s]
PyInt(n) == [t |-> "int", v |-> n]
PyBool(b) == [t |-> "bool", v |-> b]
PyNone == [t |-> "None", v |-> 0]
PyList(s) == [t |-> "list", v |-> s]
PyDict(f) == [t |-> "dict", v |-> f]
EmptyDict == [k \in {} |-> PyNone]

\* truth value of a Python value ("if x")
Truthy(x) ==
  CASE x.t = "str" -> x.v # ""
    [] x.t = "int" -> x.v # 0
    [] x.t = "bool" -> x.v
    [] x.t = "None" -> FALSE
    [] x.t = "list" -> x.v # <<>>
    [] x.t = "dict" -> DOMAIN x.v # {}

\* d[k] = v on a dict's mapping (a repeated key keeps the last value)
DictPut(f, k, v) == [x \in (DOMAIN f) \cup {k} |-> IF x = k THEN v ELSE f[x]]

\* ------------------------------------------------------------ JSON text
\* The raw answer is a sequence of tokens; k is the token kind, s its text.
Tok(k, s) == [k |-> k, s |-> s]
LBrace == Tok("{", "")
RBrace == Tok("}", "")
LBracket == Tok("[", "")
RBracket == Tok("]", "")
Colon == Tok(":", "")
Comma == Tok(",", "")
JStr(s) == Tok("string", s)
JNum(s) == Tok("number", s)
JTrue == Tok("true", "")
JFalse == Tok("false", "")
JNull == Tok("null", "")
Junk(s) == Tok("junk", s)

NumVal(s) == IF s = "0" THEN 0 ELSE 7

ParseOk(v, n) == [ok |-> TRUE, val |-> v, next |-> n]
ParseFail == [ok |-> FALSE, val |-> PyNone, next |-> 0]

RECURSIVE ParseValue(_, _), ParseMembers(_, _, _), ParseElements(_, _, _)

\* one JSON value starting at toks[i]; next is the index after it
ParseValue(toks, i) ==
  IF i > Len(toks) THEN ParseFail
  ELSE LET h == toks[i] IN
    CASE h.k = "string" -> ParseOk(PyStr(h.s), i + 1)
      [] h.k = "number" -> ParseOk(PyInt(NumVal(h.s)), i + 1)
      [] h.k = "true" -> ParseOk(PyBool(TRUE), i + 1)
      [] h.k = "false" -> ParseOk(PyBool(FALSE), i + 1)
      [] h.k = "null" -> ParseOk(PyNone, i + 1)
      [] h.k = "{" ->
           IF i + 1 <= Len(toks) /\ toks[i + 1].k = "}"
           THEN ParseOk(PyDict(EmptyDict), i + 2)
           ELSE ParseMembers(toks, i + 1, EmptyDict)
      [] h.k = "[" ->
           IF i + 1 <= Len(toks) /\ toks[i + 1].k = "]"
           THEN ParseOk(PyList(<<>>), i + 2)
           ELSE ParseElements(toks, i + 1, <<>>)
      [] OTHER -> ParseFail

\* "key" : value, then "," and more members, or "}"
ParseMembers(toks, i, acc) ==
  IF i + 1 > Len(toks) \/ toks[i].k # "string" \/ toks[i + 1].k # ":"
  THEN ParseFail
  ELSE LET r == ParseValue(toks, i + 2) IN
    IF ~r.ok \/ r.next > Len(toks) THEN ParseFail
    ELSE LET acc2 == DictPut(acc, toks[i].s, r.val) IN
      CASE toks[r.next].k = "}" -> ParseOk(PyDict(acc2), r.next + 1)
        [] toks[r.next].k = "," -> ParseMembers(toks, r.next + 1, acc2)
        [] OTHER -> ParseFail

\* value, then "," and more elements, or "]"
ParseElements(toks, i, acc) ==
  LET r == ParseValue(toks, i) IN
    IF ~r.ok \/ r.next > Len(toks) THEN ParseFail
    ELSE LET acc2 == Append(acc, r.val) IN
      CASE toks[r.next].k = "]" -> ParseOk(PyList(acc2), r.next + 1)
        [] toks[r.next].k = "," -> ParseElements(toks, r.next + 1, acc2)
        [] OTHER -> ParseFail

\* json.loads: raised is TRUE for a JSONDecodeError (no value, or extra data)
Loads(toks) ==
  LET r == ParseValue(toks, 1)
  IN IF r.ok /\ r.next = Len(toks) + 1
     THEN [raised |-> FALSE, val |-> r.val]
     ELSE [raised |-> TRUE, val |-> PyNone]

\* ------------------------------------------------- constants of vessy.py
SYSTEM_PROMPT == "SYSTEM_PROMPT"
Model == "llama-3.1-8b-instant"
LogsHeader == "LOGS / TEXT:\n"
ScreenHeader == "VISIBLE TEXT FROM SCREENSHOT:\n"
Instruction == "Base your diagnosis strictly on the information above."
NL == "\n"

\* the record returned when no evidence was given
EmptyInputFallback ==
  PyDict([status |-> PyStr("WORKING"),
          domain |-> PyStr("unknown"),
          error_summary |-> PyStr("No information provided"),
          root_cause |-> PyStr("Insufficient input"),
          explanation |-> PyStr("No logs or readable screen content were shared."),
          next_steps |-> PyList(<<PyDict(
             [action |-> PyStr("Upload a clearer screenshot or paste the exact error message"),
              expected_result |-> PyStr("The issue can be diagnosed accurately")])>>),
          confidence |-> PyStr("high"),
          needs_verification |-> PyBool(FALSE),
          visual_labels |-> PyList(<<>>)])

\* the record returned from the except branch
ParseFailureFallback ==
  PyDict([status |-> PyStr("ERROR"),
          domain |-> PyStr("unknown"),
          error_summary |-> PyStr("Unable to parse diagnosis"),
          root_cause |-> PyStr("Model output was unclear"),
          explanation |-> PyStr("The information provided was not sufficient to form a reliable diagnosis."),
          next_steps |-> PyList(<<PyDict(
             [action |-> PyStr("Provide only the relevant error or a clearer screenshot"),
              expected_result |-> PyStr("The root cause becomes identifiable")])>>),
          confidence |-> PyStr("low"),
          needs_verification |-> PyBool(TRUE),
          visual_labels |-> PyList(<<>>)])

\* ------------------------------------- answers of the external service
\* Keys of the JSON format the system prompt asks for, in its order.
KeyOrder == <<"status", "domain", "error_summary", "root_cause", "explanation",
              "next_steps", "confidence", "needs_verification", "visual_labels">>
ListKeys == {"next_steps", "visual_labels"}
ScalarKeys == {KeyOrder[i] : i \in DOMAIN KeyOrder} \ ListKeys

\* the fields the rendering code reads from the record
RenderedScalars == <<"status", "domain", "confidence", "error_summary",
                     "root_cause", "explanation">>
StepFields == <<"action", "expected_result">>

\* what the service may put in a list field
VlShapes == {"absent", "empty", "one", "str", "num", "bool", "null"}
NsShapes == VlShapes \cup {"no_expected"}
\* the service leaves out no scalar field, or one of them
DroppedSets == {{}} \cup {{k} : k \in ScalarKeys}

ScalarToks(key) ==
  CASE key = "status" -> <<JStr("WARNING")>>
    [] key = "domain" -> <<JStr("python")>>
    [] key = "error_summary" -> <<JStr("summary")>>
    [] key = "root_cause" -> <<JStr("cause")>>
    [] key = "explanation" -> <<JStr("because")>>
    [] key = "confidence" -> <<JStr("medium")>>
    [] key = "needs_verification" -> <<JTrue>>

ListToks(key, shape) ==
  CASE shape = "empty" -> <<LBracket, RBracket>>
    [] shape = "str" -> <<JStr("x")>>
    [] shape = "num" -> <<JNum("7")>>
    [] shape = "bool" -> <<JTrue>>
    [] shape = "null" -> <<JNull>>
    [] shape = "no_expected" ->
         <<LBracket, LBrace, JStr("action"), Colon, JStr("do"), RBrace, RBracket>>
    [] shape = "one" ->
         IF key = "next_steps"
         THEN <<LBracket, LBrace, JStr("action"), Colon, JStr("do"), Comma,
                JStr("expected_result"), Colon, JStr("see"), RBrace, RBracket>>
         ELSE <<LBracket, JStr("label"), RBracket>>

RECURSIVE JoinMembers(_)
\* member token lists joined by commas
JoinMembers(ms) ==
  IF ms = <<>> THEN <<>>
  ELSE IF Len(ms) = 1 THEN ms[1]
  ELSE ms[1] \o <<Comma>> \o JoinMembers(Tail(ms))

\* the text of a JSON object without the scalar keys in dropped and with the
\* list fields of the given shapes
ObjectDoc(dropped, ns, vl) ==
  LET present(k) == /\ k \notin dropped
                    /\ (k = "next_steps" => ns # "absent")
                    /\ (k = "visual_labels" => vl # "absent")
      keys == SelectSeq(KeyOrder, present)
      member(k) == <<JStr(k), Colon>> \o
                   (IF k = "next_steps" THEN ListToks(k, ns)
                    ELSE IF k = "visual_labels" THEN ListToks(k, vl)
                    ELSE ScalarToks(k))
  IN <<LBrace>> \o JoinMembers([i \in 1..Len(keys) |-> member(keys[i])]) \o <<RBrace>>

ObjectDocs == {ObjectDoc(d, ns, vl) : d \in DroppedSets, ns \in NsShapes, vl \in VlShapes}
\* a complete answer cut at the token ceiling: the last token is missing
TruncatedDocs == {SubSeq(ObjectDoc({}, ns, vl), 1, Len(ObjectDoc({}, ns, vl)) - 1) :
                    ns \in NsShapes, vl \in VlShapes}
\* valid JSON whose top-level value is no object
NonObjectDocs == {<<JStr("ok")>>, <<JNum("7")>>, <<JNum("0")>>, <<JTrue>>, <<JFalse>>,
                  <<JNull>>, <<LBracket, RBracket>>, <<LBracket, JStr("x"), RBracket>>}
\* text that is no JSON, the empty object, a repeated key, JSON followed by prose
OtherDocs == {<<>>, <<Junk("not json")>>, <<LBrace, RBrace>>,
              <<LBrace, JStr("status"), Colon, JStr("ERROR"), Comma,
                JStr("status"), Colon, JStr("WORKING"), RBrace>>,
              ObjectDoc({}, "one", "one") \o <<Junk("hope this helps")>>}
Contents == ObjectDocs \cup TruncatedDocs \cup NonObjectDocs \cup OtherDocs

\* outcomes of llm.chat.completions.create: an exception, or a response object
Raised(why) == [kind |-> "raise", why |-> why, content |-> <<>>]
Failures == {Raised(w) : w \in {"network", "no_credential", "non_2xx"}}
NoChoices == [kind |-> "no_choices", why |-> "", content |-> <<>>]
NoneContent == [kind |-> "none_content", why |-> "", content |-> <<>>]
Answer(c) == [kind |-> "content", why |-> "", content |-> c]
NoRes == [kind |-> "none", why |-> "", content |-> <<>>]
Outcomes == Failures \cup {NoChoices, NoneContent} \cup {Answer(c) : c \in Contents}

\* ------------------------------------------------------------------ OCR
\* An uploaded image is modelled by what text recognition does on it.
Recognised(t) == [throws |-> FALSE, text |-> t]
RecogThrows == [throws |-> TRUE, text |-> <<>>]
Recogs == {RecogThrows} \cup {Recognised(t) : t \in Texts}
NoUpload == [present |-> FALSE, recog |-> Recognised(<<>>)]
Upload(r) == [present |-> TRUE, recog |-> r]
Uploads == {NoUpload} \cup {Upload(r) : r \in Recogs}

\* extract_screen_text returning the recognised text as it is
extract_screen_text_NoStrip(image) ==
  IF image.throws THEN [raised |-> FALSE, val |-> None]
  ELSE IF Strip(image.text) # <<>>
       THEN [raised |-> FALSE, val |-> Some(image.text)]
       ELSE [raised |-> FALSE, val |-> None]

\* extract_screen_text: raised tells whether an exception leaves the function
extract_screen_text(image) ==
  IF image.throws THEN [raised |-> FALSE, val |-> None]
  ELSE IF Strip(image.text) # <<>>
       THEN [raised |-> FALSE, val |-> Some(Strip(image.text))]
       ELSE [raised |-> FALSE, val |-> None]

\* ------------------------------------------------------------- diagnose
\* the guard testing the log text without strip()
IsEmptyInput_NoStrip(context_text, image_text) ==
  context_text = <<>> /\ ~TruthyText(image_text)

\* the guard of the early return
IsEmptyInput(context_text, image_text) ==
  Strip(context_text) = <<>> /\ ~TruthyText(image_text)

\* the user message with the screenshot section put first
BuildUserContent_ScreenFirst(context_text, image_text) ==
  (IF TruthyText(image_text)
   THEN <<ScreenHeader>> \o image_text.text \o <<NL, NL>> ELSE <<>>)
  \o (IF Strip(context_text) # <<>>
      THEN <<LogsHeader>> \o context_text \o <<NL, NL>> ELSE <<>>)
  \o <<Instruction>>

\* the user message
BuildUserContent(context_text, image_text) ==
  (IF Strip(context_text) # <<>>
   THEN <<LogsHeader>> \o context_text \o <<NL, NL>> ELSE <<>>)
  \o (IF TruthyText(image_text)
      THEN <<ScreenHeader>> \o image_text.text \o <<NL, NL>> ELSE <<>>)
  \o <<Instruction>>

\* the request handed to llm.chat.completions.create
Request(user_content) ==
  [model |-> Model, system |-> SYSTEM_PROMPT, user |-> user_content]

\* setdefault that leaves an absent key absent
SetDefault_NoInsert(data, key, default) ==
  IF data.t # "dict" THEN [raised |-> TRUE, val |-> data]
  ELSE [raised |-> FALSE, val |-> data]

\* data[key] = default in place of setdefault
SetDefault_Overwrite(data, key, default) ==
  IF data.t # "dict" THEN [raised |-> TRUE, val |-> data]
  ELSE [raised |-> FALSE, val |-> PyDict(DictPut(data.v, key, default))]

\* setdefault that does nothing, and raises nothing, on a value that is no dict
SetDefault_AnyValue(data, key, default) ==
  IF data.t # "dict" THEN [raised |-> FALSE, val |-> data]
  ELSE IF key \in DOMAIN data.v THEN [raised |-> FALSE, val |-> data]
  ELSE [raised |-> FALSE, val |-> PyDict(DictPut(data.v, key, default))]

\* dict.setdefault; raised is TRUE when data has no such method
SetDefault(data, key, default) ==
  IF data.t # "dict" THEN [raised |-> TRUE, val |-> data]
  ELSE IF key \in DOMAIN data.v THEN [raised |-> FALSE, val |-> data]
  ELSE [raised |-> FALSE, val |-> PyDict(DictPut(data.v, key, default))]

\* the try block and its except branch, for a call that returned r
ParseResponse(r) ==
  IF r.kind # "content" THEN ParseFailureFallback
  ELSE LET data == Loads(r.content) IN
    IF data.raised THEN ParseFailureFallback
    ELSE LET d1 == SetDefault(data.val, "visual_labels", PyList(<<>>)) IN
      IF d1.raised THEN ParseFailureFallback
      ELSE LET d2 == SetDefault(d1.val, "next_steps", PyList(<<>>)) IN
        IF d2.raised THEN ParseFailureFallback ELSE d2.val

\* ------------------------------------------------------------ rendering
RECURSIVE FirstMissing(_, _)
\* the first key of keys that the mapping f lacks, "" if none
FirstMissing(keys, f) ==
  IF keys = <<>> THEN ""
  ELSE IF Head(keys) \notin DOMAIN f THEN Head(keys)
  ELSE FirstMissing(Tail(keys), f)

\* the read of step['action'] and step['expected_result'] for one step
StepError(step) ==
  IF step.t # "dict" THEN "TypeError"
  ELSE IF FirstMissing(StepFields, step.v) # "" THEN "KeyError"
  ELSE "none"

RECURSIVE StepsError(_)
StepsError(steps) ==
  IF steps = <<>> THEN "none"
  ELSE IF StepError(Head(steps)) # "none" THEN StepError(Head(steps))
  ELSE StepsError(Tail(steps))

\* for step in result["next_steps"]
LoopError(ns) ==
  CASE ns.t = "list" -> StepsError(ns.v)
    [] ns.t = "str" -> IF ns.v = "" THEN "none" ELSE "TypeError"
    [] ns.t = "dict" -> IF DOMAIN ns.v = {} THEN "none" ELSE "TypeError"
    [] OTHER -> "TypeError"

\* if img and result["visual_labels"]: annotate_with_labels(...)
VisualError(has_img, f) ==
  IF ~has_img THEN "none"
  ELSE IF "visual_labels" \notin DOMAIN f THEN "KeyError"
  ELSE IF Truthy(f["visual_labels"]) /\ f["visual_labels"].t \in {"int", "bool"}
       THEN "TypeError"
  ELSE "none"

\* the exception the rendering code raises on r, "none" if it completes
RenderError(r, has_img) ==
  IF r.t # "dict" THEN "TypeError"
  ELSE IF FirstMissing(RenderedScalars, r.v) # "" THEN "KeyError"
  ELSE IF "next_steps" \notin DOMAIN r.v THEN "KeyError"
  ELSE IF LoopError(r.v["next_steps"]) # "none" THEN LoopError(r.v["next_steps"])
  ELSE VisualError(has_img, r.v)

\* ---------------------------------------------------------------- state
VARIABLES
  pc,              \* position of the script: idle, prepare, diagnose, call, render, done, crashed
  context,         \* the text area
  uploaded_image,  \* the file uploader
  img,             \* TRUE when the handler opened an image
  image_text,      \* result of the OCR, None without one
  user_content,    \* the user message built by diagnose
  calls,           \* requests made to the external service in this run
  res,             \* what the external call did
  result,          \* the record diagnose returned
  error            \* the exception that ended the run, "none" otherwise

vars == <<pc, context, uploaded_image, img, image_text, user_content, calls, res,
          result, error>>

Init ==
  /\ pc = "idle"
  /\ context = <<>>
  /\ uploaded_image = NoUpload
  /\ img = FALSE
  /\ image_text = None
  /\ user_content = <<>>
  /\ calls = <<>>
  /\ res = NoRes
  /\ result = PyNone
  /\ error = "none"

\* The user fills the widgets and presses "Diagnose & Fix": the script runs
\* from its top with the widgets' values.
Click(c, u) ==
  /\ pc = "idle"
  /\ pc' = "prepare"
  /\ context' = c
  /\ uploaded_image' = u
  /\ img' = FALSE
  /\ image_text' = None
  /\ UNCHANGED <<user_content, calls, res, result, error>>

\* The run is over (rendered, or ended by an exception): nothing of it is
\* kept, the page waits for the next interaction.
Finish ==
  /\ pc \in {"done", "crashed"}
  /\ pc' = "idle"
  /\ context' = <<>>
  /\ uploaded_image' = NoUpload
  /\ img' = FALSE
  /\ image_text' = None
  /\ user_content' = <<>>
  /\ calls' = <<>>
  /\ res' = NoRes
  /\ result' = PyNone
  /\ error' = "none"

\* if uploaded_image: open it and run the OCR
Prepare ==
  /\ pc = "prepare"
  /\ IF uploaded_image.present
     THEN LET r == extract_screen_text(uploaded_image.recog) IN
          /\ img' = TRUE
          /\ IF r.raised
             THEN pc' = "crashed" /\ error' = "Exception" /\ image_text' = None
             ELSE pc' = "diagnose" /\ error' = "none" /\ image_text' = r.val
     ELSE pc' = "diagnose" /\ UNCHANGED <<img, image_text, error>>
  /\ UNCHANGED <<context, uploaded_image, user_content, calls, res, result>>

\* diagnose up to the external call: the early return, or the user message
DiagnoseBuild ==
  /\ pc = "diagnose"
  /\ IF IsEmptyInput(context, image_text)
     THEN /\ result' = EmptyInputFallback
          /\ pc' = "render"
          /\ UNCHANGED user_content
     ELSE /\ user_content' = BuildUserContent(context, image_text)
          /\ pc' = "call"
          /\ UNCHANGED result
  /\ UNCHANGED <<context, uploaded_image, img, image_text, calls, res, error>>

\* the external call and the rest of diagnose; an exception of the call is
\* raised outside the try block and leaves diagnose
DiagnoseCall(o) ==
  /\ pc = "call"
  /\ calls' = Append(calls, Request(user_content))
  /\ res' = o
  /\ IF o.kind = "raise"
     THEN pc' = "crashed" /\ error' = "APIError" /\ UNCHANGED result
     ELSE pc' = "render" /\ result' = ParseResponse(o) /\ UNCHANGED error
  /\ UNCHANGED <<context, uploaded_image, img, image_text, user_content>>

\* the rendering of the record
Render ==
  /\ pc = "render"
  /\ error' = RenderError(result, img)
  /\ pc' = IF RenderError(result, img) = "none" THEN "done" ELSE "crashed"
  /\ UNCHANGED <<context, uploaded_image, img, image_text, user_content, calls, res,
                 result>>

Next ==
  \/ \E c \in Texts, u \in Uploads : Click(c, u)
  \/ Prepare
  \/ DiagnoseBuild
  \/ \E o \in Outcomes : DiagnoseCall(o)
  \/ Render
  \/ Finish

Spec == Init /\ [][Next]_vars

\* =============================================================== claims
\* diagnose returned a record to the handler
DiagnoseReturned ==
  pc \in {"render", "done"} \/ (pc = "crashed" /\ error \in {"KeyError", "TypeError"})

Blank(t) == \A i \in 1..Len(t) : t[i] \in Whitespace
Elems(m) == {m[i] : i \in 1..Len(m)}
Occurrences(m, x) == {i \in 1..Len(m) : m[i] = x}

\* l is the outcome of json.loads on the answer: JSON text, and a JSON object
IsJson(l) == ~l.raised
IsObject(l) == ~l.raised /\ l.val.t = "dict"

\* C1: whenever the external call fails with an exception, diagnose returns
\* the parse-failure fallback (status ERROR, confidence low) and the run is
\* not ended by the exception.
C1_CallFailureGivesFallback ==
  res.kind = "raise" =>
    /\ pc # "crashed"
    /\ result = ParseFailureFallback
    /\ result.v["status"] = PyStr("ERROR")
    /\ result.v["confidence"] = PyStr("low")

\* C2: with a blank log text and no OCR text, diagnose makes no external call
\* and returns the empty-input fallback: status WORKING, confidence high, no
\* visual labels, exactly one next step.
C2_EmptyInputShortCircuit ==
  (/\ pc \notin {"idle", "prepare", "diagnose"}
   /\ Blank(context)
   /\ (image_text.isNone \/ image_text.text = <<>>)) =>
    /\ pc \in {"render", "done"}
    /\ calls = <<>>
    /\ res = NoRes
    /\ result = EmptyInputFallback
    /\ result.v["status"] = PyStr("WORKING")
    /\ result.v["confidence"] = PyStr("high")
    /\ result.v["visual_labels"] = PyList(<<>>)
    /\ Len(result.v["next_steps"].v) = 1

C2_Witness ==
  /\ pc = "done"
  /\ context # <<>>
  /\ Blank(context)
  /\ ~uploaded_image.present
  /\ result = EmptyInputFallback

\* C3: an answer that is no JSON, or a JSON object that lacks one of status,
\* domain, error_summary, root_cause, explanation, confidence, makes diagnose
\* return the parse-failure fallback (confidence low, next_steps non-empty).
RequiredKeys == {"status", "domain", "error_summary", "root_cause", "explanation",
                 "confidence"}

C3_IncompleteGivesFallback ==
  (/\ DiagnoseReturned
   /\ res.kind = "content"
   /\ LET l == Loads(res.content)
      IN ~IsJson(l) \/ (IsObject(l) /\ ~(RequiredKeys \subseteq DOMAIN l.val.v))) =>
    /\ result = ParseFailureFallback
    /\ result.v["confidence"] = PyStr("low")
    /\ result.v["next_steps"].v # <<>>

\* C4: every record diagnose returns has all the fields the rendering reads:
\* the six scalars, next_steps as a list of steps with action and
\* expected_result, and visual_labels; rendering raises no KeyError.
IsStep(x) == x.t = "dict" /\ {"action", "expected_result"} \subseteq DOMAIN x.v

HasAllFields(r) ==
  /\ r.t = "dict"
  /\ RequiredKeys \cup ListKeys \subseteq DOMAIN r.v
  /\ r.v["next_steps"].t = "list"
  /\ \A i \in 1..Len(r.v["next_steps"].v) : IsStep(r.v["next_steps"].v[i])
  /\ r.v["visual_labels"].t = "list"

C4_RecordIsComplete ==
  DiagnoseReturned => (HasAllFields(result) /\ error # "KeyError")

\* C5: a JSON object whose visual_labels or next_steps is a string, number,
\* boolean or null makes diagnose return the parse-failure fallback.
NonCollection(x) == x.t \in {"str", "int", "bool", "None"}

C5_NonCollectionGivesFallback ==
  (/\ DiagnoseReturned
   /\ res.kind = "content"
   /\ LET l == Loads(res.content)
      IN /\ IsObject(l)
         /\ \E k \in ListKeys \cap DOMAIN l.val.v : NonCollection(l.val.v[k])) =>
    result = ParseFailureFallback

\* C6: for an answer parsed as an object, a list field absent from the
\* payload is in the record as an empty list, and every key of the payload
\* is in the record with the payload's value; the record has no other key.
C6_AbsentListsDefaulted ==
  (DiagnoseReturned /\ res.kind = "content") =>
    LET l == Loads(res.content) IN
      IsObject(l) =>
        /\ result.t = "dict"
        /\ DOMAIN result.v = (DOMAIN l.val.v) \cup ListKeys
        /\ \A k \in ListKeys \ DOMAIN l.val.v : result.v[k] = PyList(<<>>)
        /\ \A k \in DOMAIN l.val.v : result.v[k] = l.val.v[k]

C6_Witness ==
  /\ pc = "done"
  /\ res.kind = "content"
  /\ LET l == Loads(res.content)
     IN /\ IsObject(l)
        /\ ListKeys \cap DOMAIN l.val.v = {}
        /\ RequiredKeys \subseteq DOMAIN l.val.v
  /\ result.v["visual_labels"] = PyList(<<>>)
  /\ result.v["next_steps"] = PyList(<<>>)

\* C7: for an answer that is a JSON object with every field of the format,
\* both list fields being lists, the record equals the parsed JSON.
Conforming(l) ==
  /\ IsObject(l)
  /\ DOMAIN l.val.v = ScalarKeys \cup ListKeys
  /\ \A k \in ListKeys : l.val.v[k].t = "list"

C7_RoundTrip ==
  (DiagnoseReturned /\ res.kind = "content") =>
    LET l == Loads(res.content) IN Conforming(l) => result = l.val

C7_Witness ==
  /\ pc = "done"
  /\ res.kind = "content"
  /\ LET l == Loads(res.content)
     IN /\ Conforming(l)
        /\ \A k \in ListKeys : l.val.v[k].v # <<>>
        /\ result = l.val

\* C8: extract_screen_text raises nothing; it gives None when recognition
\* throws or finds only whitespace, else the recognised text without its
\* leading and trailing whitespace; so an image without readable text and a
\* blank log text give the empty-input fallback without an external call.
IsTrimOf(t, raw) ==
  /\ t # <<>>
  /\ t[1] \notin Whitespace
  /\ t[Len(t)] \notin Whitespace
  /\ \E i \in 1..Len(raw) :
       /\ i + Len(t) - 1 <= Len(raw)
       /\ SubSeq(raw, i, i + Len(t) - 1) = t
       /\ \A j \in 1..Len(raw) : (j < i \/ j > i + Len(t) - 1) => raw[j] \in Whitespace

Unreadable(image) == image.throws \/ Blank(image.text)

C8_OcrNeverRaises ==
  (pc \notin {"idle", "prepare"} /\ uploaded_image.present) =>
    /\ error # "Exception"
    /\ IF Unreadable(uploaded_image.recog)
       THEN image_text = None
       ELSE ~image_text.isNone /\ IsTrimOf(image_text.text, uploaded_image.recog.text)
    /\ (Unreadable(uploaded_image.recog) /\ Blank(context) /\ pc # "diagnose") =>
         (pc \in {"render", "done"} /\ calls = <<>> /\ result = EmptyInputFallback)

C8_Witness ==
  /\ pc = "done"
  /\ uploaded_image.present
  /\ ~uploaded_image.recog.throws
  /\ uploaded_image.recog.text # <<>>
  /\ image_text = None
  /\ calls = <<>>
  /\ result = EmptyInputFallback

\* C9: with some evidence, exactly one external call is made, with the
\* system prompt and a user message made of the logs section (there iff the
\* log text is not blank), then the screenshot section (there iff there is
\* OCR text), then the instruction, which comes last.
MessageShape(m) ==
  /\ m # <<>>
  /\ Occurrences(m, Instruction) = {Len(m)}
  /\ (LogsHeader \in Elems(m)) <=> ~Blank(context)
  /\ (ScreenHeader \in Elems(m)) <=> ~image_text.isNone
  /\ ~Blank(context) =>
       /\ Occurrences(m, LogsHeader) = {1}
       /\ SubSeq(m, 2, Len(context) + 1) = context
  /\ ~image_text.isNone =>
       \E i \in 1..Len(m) :
         /\ Occurrences(m, ScreenHeader) = {i}
         /\ \A j \in Occurrences(m, LogsHeader) : j < i
         /\ SubSeq(m, i + 1, i + Len(image_text.text)) = image_text.text
         /\ i + Len(image_text.text) < Len(m)

C9_OneCallWithComposedMessage ==
  (pc \in {"render", "done", "crashed"} /\ (~Blank(context) \/ TruthyText(image_text))) =>
    /\ Len(calls) = 1
    /\ calls[1].system = SYSTEM_PROMPT
    /\ MessageShape(calls[1].user)

C9_Witness ==
  /\ pc = "done"
  /\ Len(calls) = 1
  /\ {LogsHeader, ScreenHeader} \subseteq Elems(calls[1].user)
  /\ Blank(<<context[1]>>)

\* C10: an answer that is valid JSON but no object (array, string, number,
\* boolean, null) makes diagnose return the parse-failure fallback, and no
\* exception ends the run.
C10_NonObjectGivesFallback ==
  (res.kind = "content" /\ res.content # <<>> /\ res.content[1].k # "{") =>
    LET l == Loads(res.content) IN
      (IsJson(l) /\ l.val.t # "dict") =>
        /\ pc \in {"render", "done"}
        /\ error = "none"
        /\ result = ParseFailureFallback

C10_Witness ==
  /\ pc = "done"
  /\ res.kind = "content"
  /\ res.content = <<LBracket, JStr("x"), RBracket>>
  /\ result = ParseFailureFallback

====
